---- MODULE Spec2Model ----
(***************************************************************************)
(* Model of the GitHub repository organizer content script: the navigation *)
(* monitor (checkPage, the locationchange / popstate listeners), the       *)
(* readiness probe, the extractor, the grouping function and the tree      *)
(* rewriter, over an abstract document tree.                               *)
(*                                                                         *)
(* Text is a sequence of one-character strings.  A node of the tree is a   *)
(* record; an item (li) carries its identity in `id`, so that a relocated  *)
(* node can be told from a copy.                                           *)
(***************************************************************************)
EXTENDS Integers, Sequences, FiniteSets, TLC

VARIABLES
    url,                        \* window.location.href
    doc,                        \* the document tree below the list-view container
    isOnRepositoriesPage,       \* View State flag
    hasProcessedRepositories,   \* View State flag
    checking,                   \* the setInterval(checkPage, 100) timer is running
    polls,                      \* number of running readiness-poll timers
    runs,                       \* history: completed rewrites since the last arrival
    scn,                        \* history: progress of [arrive, ready, depart, arrive, ready]
    last,                       \* history: the most recent call of processRepositories
    heard                       \* history: the location the latest navigation event found

vars == <<url, doc, isOnRepositoriesPage, hasProcessedRepositories, checking,
          polls, runs, scn, last, heard>>

----------------------------------------------------------------------------
(* Bounds *)

MaxItems == 4       \* items of the list the page is loaded with (SpecPipe)
MaxViewItems == 2   \* items of a list the host renders while the monitor runs (Spec)
MaxPolls == 2       \* readiness-poll timers alive at once
MaxRuns  == 3       \* the run counters saturate here

----------------------------------------------------------------------------
(* Text *)

Lower == <<"a","b","c","d","e","f","g","h","i","j","k","l","m",
           "n","o","p","q","r","s","t","u","v","w","x","y","z">>
Upper == <<"A","B","C","D","E","F","G","H","I","J","K","L","M",
           "N","O","P","Q","R","S","T","U","V","W","X","Y","Z">>
Digits == <<"0","1","2","3","4","5","6","7","8","9">>

Min(a, b) == IF a < b THEN a ELSE b

\* Op applied to the value of v, v evaluated once
With(v, Op(_)) == CHOOSE r \in { Op(x) : x \in {v} } : TRUE

\* String.prototype.toUpperCase, one character
ToUpperChar(c) ==
    IF \E i \in 1..Len(Lower) : Lower[i] = c
    THEN Upper[CHOOSE i \in 1..Len(Lower) : Lower[i] = c]
    ELSE c

\* String.prototype.toUpperCase
ToUpperCase(s) == [i \in 1..Len(s) |-> ToUpperChar(s[i])]

IsSpace(c) == c = " "

\* String.prototype.trim
RECURSIVE TrimLeft(_)
TrimLeft(s) ==
    IF s # <<>> /\ IsSpace(Head(s)) THEN TrimLeft(Tail(s)) ELSE s

RECURSIVE TrimRight(_)
TrimRight(s) ==
    IF s # <<>> /\ IsSpace(s[Len(s)]) THEN TrimRight(SubSeq(s, 1, Len(s) - 1)) ELSE s

trim(s) == TrimRight(TrimLeft(s))

\* title.split('-')[0]: the text before the first '-', the whole text without one
RECURSIVE splitFirst(_)
splitFirst(s) ==
    IF s = <<>> \/ Head(s) = "-" THEN <<>> ELSE <<Head(s)>> \o splitFirst(Tail(s))

\* String.prototype.substring(start)
substring(s, start) == SubSeq(s, Min(start, Len(s)) + 1, Len(s))

\* The property names every object literal inherits from Object.prototype
ProtoKeys ==
    { <<"c","o","n","s","t","r","u","c","t","o","r">>,
      <<"t","o","S","t","r","i","n","g">>,
      <<"t","o","L","o","c","a","l","e","S","t","r","i","n","g">>,
      <<"v","a","l","u","e","O","f">>,
      <<"h","a","s","O","w","n","P","r","o","p","e","r","t","y">>,
      <<"i","s","P","r","o","t","o","t","y","p","e","O","f">>,
      <<"p","r","o","p","e","r","t","y","I","s","E","n","u","m","e","r","a","b","l","e">>,
      <<"_","_","p","r","o","t","o","_","_">>,
      <<"_","_","d","e","f","i","n","e","G","e","t","t","e","r","_","_">>,
      <<"_","_","d","e","f","i","n","e","S","e","t","t","e","r","_","_">>,
      <<"_","_","l","o","o","k","u","p","G","e","t","t","e","r","_","_">>,
      <<"_","_","l","o","o","k","u","p","S","e","t","t","e","r","_","_">> }

IsDigit(c) == \E i \in 1..Len(Digits) : Digits[i] = c
DigitVal(c) == (CHOOSE i \in 1..Len(Digits) : Digits[i] = c) - 1

\* 4294967294, the largest array index, as text
MaxIndexText == <<"4","2","9","4","9","6","7","2","9","4">>

\* a and b are digit strings of the same length: a is before b
RECURSIVE DigitsLess(_, _)
DigitsLess(a, b) ==
    /\ a # <<>>
    /\ \/ DigitVal(Head(a)) < DigitVal(Head(b))
       \/ Head(a) = Head(b) /\ DigitsLess(Tail(a), Tail(b))

\* a and b are canonical numeric strings: a is numerically below b
IndexLess(a, b) == Len(a) < Len(b) \/ (Len(a) = Len(b) /\ DigitsLess(a, b))

\* An "array index" property key: a canonical numeric string below 2^32 - 1.
\* Object.entries lists these keys first, in ascending numeric order.
IsArrayIndex(k) ==
    /\ k # <<>>
    /\ \A i \in 1..Len(k) : IsDigit(k[i])
    /\ Len(k) > 1 => k[1] # "0"
    /\ \/ Len(k) < Len(MaxIndexText)
       \/ Len(k) = Len(MaxIndexText) /\ ~DigitsLess(MaxIndexText, k)

----------------------------------------------------------------------------
(* The document tree *)

\* An item of the list: <li> ... <div><h4><a><span>text</span></a></h4></div> </li>.
\* span = FALSE is an item whose title element has not been rendered.
Li(id, span, text) ==
    [kind |-> "li", id |-> id, span |-> span, text |-> text,
     display |-> "", content |-> <<>>, clicks |-> 0]

\* A collapsible section: div.menu-container holding div.menu-title (text) and
\* div.menu-content (display, content).  clicks is history: the parity of the
\* activations of the header since the section was built.
Menu(text, display, content) ==
    [kind |-> "menu", id |-> 0, span |-> FALSE, text |-> text,
     display |-> display, content |-> content, clicks |-> 0]

NoDocument == [container |-> FALSE, children |-> <<>>]

\* querySelectorAll('li') below a sequence of nodes, in document order
RECURSIVE querySelectorAllLi(_)
querySelectorAllLi(nodes) ==
    IF nodes = <<>> THEN <<>>
    ELSE (IF Head(nodes).kind = "li" THEN <<Head(nodes)>> ELSE Head(nodes).content)
         \o querySelectorAllLi(Tail(nodes))

getRepositoriesContainer(d) == d.container

\* is_document_ready that tests the text without trimming it
is_document_ready_untrimmed(d) ==
    LET repoItems == querySelectorAllLi(d.children) IN
    /\ getRepositoriesContainer(d)
    /\ Len(repoItems) # 0
    /\ \A i \in 1..Len(repoItems) :
           repoItems[i].span /\ repoItems[i].text # <<>>

is_document_ready(d) ==
    LET repoItems == querySelectorAllLi(d.children) IN
    /\ getRepositoriesContainer(d)
    /\ Len(repoItems) # 0
    /\ \A i \in 1..Len(repoItems) :
           repoItems[i].span /\ trim(repoItems[i].text) # <<>>

\* one record per title span, in document order
getRepositoriesData(d) ==
    LET withTitle == SelectSeq(querySelectorAllLi(d.children), LAMBDA n : n.span) IN
    [i \in 1..Len(withTitle) |->
        [node |-> withTitle[i], title |-> trim(withTitle[i].text)]]

----------------------------------------------------------------------------
(* Grouping *)

Range(s) == { s[i] : i \in 1..Len(s) }

\* The accumulator of the reduce: the object's own keys in insertion order and
\* the array under each key; threw = the callback raised a TypeError.
EmptyGroups == [threw |-> FALSE, keys |-> <<>>, members |-> <<>>]

\* the reduce left by an exception: no object is returned
Thrown == [threw |-> TRUE, keys |-> <<>>, members |-> <<>>]

\* members is a sequence parallel to keys
KeyIndex(groups, k) == CHOOSE i \in 1..Len(groups.keys) : groups.keys[i] = k
HasOwn(groups, k) == k \in Range(groups.keys)
Members(groups, k) == groups.members[KeyIndex(groups, k)]

\* groupStep with unshift in place of push
groupStepUnshift(groups, rec) ==
    LET prefix == splitFirst(rec.title) IN
    IF groups.threw THEN groups
    ELSE IF HasOwn(groups, prefix)
    THEN [groups EXCEPT !.members[KeyIndex(groups, prefix)] = <<rec.node>> \o @]
    ELSE IF prefix \in ProtoKeys
    THEN Thrown
    ELSE [groups EXCEPT !.keys = Append(@, prefix),
                        !.members = Append(@, <<rec.node>>)]

\* One call of the reduce callback
groupStep(groups, rec) ==
    LET prefix == splitFirst(rec.title) IN
    IF groups.threw THEN groups
    ELSE IF HasOwn(groups, prefix)
    THEN [groups EXCEPT !.members[KeyIndex(groups, prefix)] = Append(@, rec.node)]
    ELSE IF prefix \in ProtoKeys
    \* groups[prefix] is the inherited value: truthy, and without a push method
    THEN Thrown
    ELSE [groups EXCEPT !.keys = Append(@, prefix),
                        !.members = Append(@, <<rec.node>>)]

RECURSIVE reduce(_, _)
reduce(groups, repoData) ==
    IF repoData = <<>> THEN groups
    ELSE With(groupStep(groups, Head(repoData)),
              LAMBDA next : reduce(next, Tail(repoData)))

groupRepositoriesByPrefix(repoData) == reduce(EmptyGroups, repoData)

\* insertion of one array-index key into an ascending sequence
RECURSIVE InsertIndex(_, _)
InsertIndex(sorted, k) ==
    IF sorted = <<>> THEN <<k>>
    ELSE IF IndexLess(k, Head(sorted)) THEN <<k>> \o sorted
    ELSE <<Head(sorted)>> \o InsertIndex(Tail(sorted), k)

RECURSIVE SortIndex(_)
SortIndex(ks) ==
    IF ks = <<>> THEN <<>> ELSE InsertIndex(SortIndex(Tail(ks)), Head(ks))

\* Object.entries(repoGroups): the keys in property order
ObjectEntries(groups) ==
    SortIndex(SelectSeq(groups.keys, IsArrayIndex))
    \o SelectSeq(groups.keys, LAMBDA k : ~IsArrayIndex(k))

----------------------------------------------------------------------------
(* The rewrite *)

\* stripPrefix that leaves the delimiter
stripPrefixOnly(item, prefix) ==
    IF item.span
    THEN [item EXCEPT !.text = substring(trim(item.text), Len(prefix))]
    ELSE item

\* the prefix removal of one item of a menu-content; stripPrefixNone is the
\* variant that leaves the title as it is
stripPrefixNone(item, prefix) == item

stripPrefix(item, prefix) ==
    IF item.span
    THEN [item EXCEPT !.text = substring(trim(item.text), Len(prefix) + 1)]
    ELSE item

\* buildMenu that appends a clone of each node
buildMenuCloned(prefix, nodes) ==
    Menu(ToUpperCase(prefix), "none",
         [i \in 1..Len(nodes) |->
            [stripPrefix(nodes[i], prefix) EXCEPT !.id = 0 - nodes[i].id]])

\* the section built for one group
buildMenu(prefix, nodes) ==
    Menu(ToUpperCase(prefix), "none",
         [i \in 1..Len(nodes) |-> stripPrefix(nodes[i], prefix)])

\* insertMenu with appendChild in place of insertBefore(.., firstChild)
insertMenuLast(menu, children) == children \o <<menu>>

\* where a finished section goes among the container's children
insertMenu(menu, children) == <<menu>> \o children

\* the forEach over the entries, from entry i on
RECURSIVE menuLoop(_, _, _, _)
menuLoop(groups, entries, i, children) ==
    IF i > Len(entries) THEN children
    ELSE LET prefix == entries[i]
             nodes == Members(groups, prefix)
         IN IF Len(nodes) < 2
            THEN menuLoop(groups, entries, i + 1, children)
            ELSE With(insertMenu(buildMenu(prefix, nodes), children),
                      LAMBDA next : menuLoop(groups, entries, i + 1, next))

createCollapsibleMenu(repoGroups, children) ==
    menuLoop(repoGroups, ObjectEntries(repoGroups), 1, children)

\* the records that stay outside every section
isOrphan(repoGroups, rec) == Len(Members(repoGroups, splitFirst(rec.title))) < 2

\* orphanNodes that removes the prefix of the orphans too
orphanNodesStripped(repoData, repoGroups) ==
    LET kept == SelectSeq(repoData, LAMBDA rec : isOrphan(repoGroups, rec)) IN
    [i \in 1..Len(kept) |-> stripPrefix(kept[i].node, splitFirst(kept[i].title))]

orphanNodes(repoData, repoGroups) ==
    LET kept == SelectSeq(repoData, LAMBDA rec : isOrphan(repoGroups, rec)) IN
    [i \in 1..Len(kept) |-> kept[i].node]

\* processRepositories without the clearing of the container: the children
\* that were not extracted stay, emptied of the extracted items
processRepositoriesNoClear(d) ==
    LET stay == SelectSeq(d.children, LAMBDA n : n.kind = "menu" \/ ~n.span)
        leftBehind == [i \in 1..Len(stay) |->
                          [stay[i] EXCEPT !.content = SelectSeq(@, LAMBDA n : ~n.span)]]
    IN
    IF ~getRepositoriesContainer(d)
    THEN [doc |-> d, outcome |-> "nocontainer", data |-> <<>>]
    ELSE With(getRepositoriesData(d), LAMBDA repoData :
         With(groupRepositoriesByPrefix(repoData), LAMBDA repoGroups :
            IF repoGroups.threw
            THEN [doc |-> d, outcome |-> "threw", data |-> repoData]
            ELSE [doc |-> [d EXCEPT !.children =
                             createCollapsibleMenu(repoGroups,
                                 leftBehind
                                 \o orphanNodes(repoData, repoGroups))],
                  outcome |-> "done", data |-> repoData]))

\* processRepositories: the tree it leaves and how it ended
\*   "nocontainer": returned at once; "threw": the grouping raised, nothing
\*   was written; "done": the container was rewritten
processRepositories(d) ==
    IF ~getRepositoriesContainer(d)
    THEN [doc |-> d, outcome |-> "nocontainer", data |-> <<>>]
    ELSE With(getRepositoriesData(d), LAMBDA repoData :
         With(groupRepositoriesByPrefix(repoData), LAMBDA repoGroups :
            IF repoGroups.threw
            THEN [doc |-> d, outcome |-> "threw", data |-> repoData]
            ELSE [doc |-> [d EXCEPT !.children =
                             createCollapsibleMenu(repoGroups,
                                 orphanNodes(repoData, repoGroups))],
                  outcome |-> "done", data |-> repoData]))

----------------------------------------------------------------------------
(* The environment: locations and what the host renders *)

\* window.location.href as its path segments
RepositoriesUrl == <<"orgs", "acme", "repositories">>
OtherUrl == <<"orgs", "acme", "projects">>
Urls == {RepositoriesUrl, OtherUrl}
NoUrl == <<>>

\* currentUrl.includes('/repositories')
includesRepositories(u) == \E i \in 1..Len(u) : u[i] = "repositories"

\* The item texts the host renders
Titles ==
    { <<"a","-","x">>,                              \* a-x
      <<" ","a","-","y","-","z"," ">>,              \* " a-y-z ", padded, two delimiters
      <<"a">>,                                      \* a, no delimiter
      <<"b","-","x">>,                              \* b-x
      <<"-","x">>,                                  \* -x, empty key
      <<"c","o","n","s","t","r","u","c","t","o","r">>,   \* constructor
      <<" ">> }                                     \* blank

\* the texts of the lists the host renders while the monitor runs
ViewTitles ==
    { <<"a","-","x">>,
      <<" ","a","-","y","-","z"," ">>,
      <<"c","o","n","s","t","r","u","c","t","o","r">>,
      <<" ">> }

\* the items: every text with its title element, and one item without
ItemShapes(titles) ==
    { [span |-> TRUE, text |-> t] : t \in titles }
    \cup { [span |-> FALSE, text |-> <<>>] }

\* the lists of n items, numbered in document order
ListsOfLen(titles, n) ==
    { [i \in 1..n |-> Li(i, f[i].span, f[i].text)] :
        f \in [1..n -> ItemShapes(titles)] }

ListsUpTo(titles, n) == UNION { ListsOfLen(titles, k) : k \in 0..n }

NoCall == [outcome |-> "none", data |-> <<>>, before |-> <<>>]

Ready == is_document_ready(doc)
OnView == includesRepositories(url)

----------------------------------------------------------------------------
(* Initial states *)

\* The script has been evaluated: both listeners are registered, the flags
\* are false, window.onload has not fired, the view is not rendered yet.
Init ==
    /\ url \in Urls
    /\ doc = NoDocument
    /\ isOnRepositoriesPage = FALSE
    /\ hasProcessedRepositories = FALSE
    /\ checking = FALSE
    /\ polls = 0
    /\ runs = 0
    /\ scn = IF includesRepositories(url) THEN 1 ELSE 0
    /\ last = NoCall
    /\ heard = NoUrl

\* The same, on a page loaded on the repositories view with its list rendered
InitPipe ==
    /\ url = RepositoriesUrl
    /\ doc \in { [container |-> TRUE, children |-> l] : l \in ListsUpTo(Titles, MaxItems) }
    /\ isOnRepositoriesPage = FALSE
    /\ hasProcessedRepositories = FALSE
    /\ checking = FALSE
    /\ polls = 0
    /\ runs = 0
    /\ scn = -1
    /\ last = NoCall
    /\ heard = NoUrl

----------------------------------------------------------------------------
(* The script's handlers *)

\* the history variables after a call of processRepositories with result r
Called(r) ==
    /\ last' = [outcome |-> r.outcome, data |-> r.data, before |-> doc.children]
    /\ runs' = IF r.outcome = "done" THEN Min(runs + 1, MaxRuns) ELSE runs

\* window.onload: startChecking
Onload ==
    /\ ~checking
    /\ checking' = TRUE
    /\ UNCHANGED <<url, doc, isOnRepositoriesPage, hasProcessedRepositories,
                   polls, runs, scn, last, heard>>

\* the arrival / departure branches of checkPage
arrivedFlag(u, on) ==
    IF includesRepositories(u) /\ ~on THEN TRUE
    ELSE IF ~includesRepositories(u) /\ on THEN FALSE
    ELSE on

\* processedFlag without the reset on arrival
processedFlagStale(u, on, done) == done

processedFlag(u, on, done) ==
    IF includesRepositories(u) /\ ~on THEN FALSE ELSE done

\* the condition under which checkPage calls processRepositories
shouldProcess(on, done, d) == on /\ ~done /\ is_document_ready(d)

\* One firing of setInterval(checkPage, 100).  An exception raised by
\* processRepositories leaves checkPage before hasProcessedRepositories is set.
checkPage ==
    LET on == arrivedFlag(url, isOnRepositoriesPage)
        done == processedFlag(url, isOnRepositoriesPage, hasProcessedRepositories)
    IN /\ checking
       /\ UNCHANGED <<url, checking, polls, scn, heard>>
       /\ isOnRepositoriesPage' = on
       /\ IF shouldProcess(on, done, doc)
          THEN \E r \in {processRepositories(doc)} :
                  /\ doc' = r.doc
                  /\ hasProcessedRepositories' = (r.outcome # "threw")
                  /\ Called(r)
          ELSE /\ hasProcessedRepositories' = done
               /\ UNCHANGED <<doc, runs, last>>

\* a poll that stops at its first firing, whatever the probe says
pollProcessesAlways(d) == TRUE

\* the condition under which a readiness poll stops and processes
pollProcesses(d) == is_document_ready(d)

\* One firing of a readiness-poll timer started by a listener
PollFire ==
    /\ polls > 0
    /\ UNCHANGED <<url, isOnRepositoriesPage, hasProcessedRepositories,
                   checking, scn, heard>>
    /\ IF pollProcesses(doc)
       THEN \E r \in {processRepositories(doc)} :
               /\ polls' = polls - 1
               /\ doc' = r.doc
               /\ Called(r)
       ELSE UNCHANGED <<polls, doc, runs, last>>

\* toggle that only shows
toggleShow(display) == "block"

\* the click handler of a section header
toggle(display) == IF display = "block" THEN "none" ELSE "block"

Click(i) ==
    /\ i \in 1..Len(doc.children)
    /\ doc.children[i].kind = "menu"
    /\ doc' = [doc EXCEPT !.children[i].display = toggle(@),
                           !.children[i].clicks = 1 - @]
    /\ UNCHANGED <<url, isOnRepositoriesPage, hasProcessedRepositories,
                   checking, polls, runs, scn, last, heard>>

----------------------------------------------------------------------------
(* Navigation and the host application *)

\* the scenario [arrive, ready, depart, arrive, ready], each step seen by the
\* monitor before the next one: 0 nothing yet, 1 arrived, 2 ready, 3 departed
\* from ON_VIEW_DONE, 4 arrived again, 5 ready again; -1 any other history
scnAfterNavigation(u) ==
    IF scn = -1 THEN -1
    ELSE IF ~OnView /\ includesRepositories(u)
    THEN (IF scn = 0 /\ ~Ready THEN 1
          ELSE IF scn = 3 /\ ~isOnRepositoriesPage /\ ~Ready THEN 4
          ELSE -1)
    ELSE IF OnView /\ ~includesRepositories(u)
    THEN (IF scn = 2 /\ isOnRepositoriesPage /\ hasProcessedRepositories THEN 3
          ELSE -1)
    ELSE scn

scnAfterHost(d) ==
    IF scn = -1 THEN -1
    ELSE IF ~Ready /\ is_document_ready(d)
    THEN (IF scn = 1 THEN 2 ELSE IF scn = 4 THEN 5 ELSE -1)
    ELSE IF Ready /\ ~is_document_ready(d)
    THEN (IF scn = 3 THEN 3 ELSE -1)
    ELSE IF Ready /\ d # doc THEN -1
    ELSE scn

\* the location becomes u
LocationBecomes(u) ==
    /\ url' = u
    /\ runs' = IF ~OnView /\ includesRepositories(u) THEN 0 ELSE runs
    /\ scn' = scnAfterNavigation(u)

\* the listener of 'locationchange' and of 'popstate': start a readiness poll
startPoll(n) == n + 1

\* a wrapper that dispatches the event before the original call
dispatchedBefore(old, new) == old

\* the location in place when the event is dispatched, the call being from
\* old to new: the original call (or the browser's traversal) comes first
dispatchedAt(old, new) == new

\* history.pushState as overridden: the original call, then the event,
\* whose listener runs before dispatchEvent returns
PushState(u) ==
    /\ polls < MaxPolls
    /\ LocationBecomes(u)
    /\ heard' = dispatchedAt(url, u)
    /\ polls' = startPoll(polls)
    /\ UNCHANGED <<doc, isOnRepositoriesPage, hasProcessedRepositories,
                   checking, last>>

\* history.replaceState as overridden
ReplaceState(u) ==
    /\ polls < MaxPolls
    /\ LocationBecomes(u)
    /\ heard' = dispatchedAt(url, u)
    /\ polls' = startPoll(polls)
    /\ UNCHANGED <<doc, isOnRepositoriesPage, hasProcessedRepositories,
                   checking, last>>

\* back / forward: the browser changes the location and fires popstate
PopState(u) ==
    /\ polls < MaxPolls
    /\ LocationBecomes(u)
    /\ heard' = dispatchedAt(url, u)
    /\ polls' = startPoll(polls)
    /\ UNCHANGED <<doc, isOnRepositoriesPage, hasProcessedRepositories,
                   checking, last>>

\* a navigation that reaches neither listener
Navigate(u) ==
    /\ u # url
    /\ LocationBecomes(u)
    /\ UNCHANGED <<doc, isOnRepositoriesPage, hasProcessedRepositories,
                   checking, polls, last, heard>>

\* the host renders the list view
HostRender(l) ==
    LET d == [container |-> TRUE, children |-> l] IN
    /\ doc' = d
    /\ scn' = scnAfterHost(d)
    /\ last' = NoCall
    /\ UNCHANGED <<url, isOnRepositoriesPage, hasProcessedRepositories,
                   checking, polls, runs, heard>>

\* the host removes the list view
HostRemove ==
    /\ doc # NoDocument
    /\ doc' = NoDocument
    /\ scn' = scnAfterHost(NoDocument)
    /\ last' = NoCall
    /\ UNCHANGED <<url, isOnRepositoriesPage, hasProcessedRepositories,
                   checking, polls, runs, heard>>

----------------------------------------------------------------------------
(* Specifications *)

\* the script in a page that navigates and renders freely
Next ==
    \/ Onload
    \/ checkPage
    \/ PollFire
    \/ \E i \in 1..(MaxViewItems + 1) : Click(i)
    \/ \E u \in Urls : PushState(u)
    \/ \E u \in Urls : ReplaceState(u)
    \/ \E u \in Urls : PopState(u)
    \/ \E u \in Urls : Navigate(u)
    \/ \E l \in ListsUpTo(ViewTitles, MaxViewItems) : HostRender(l)
    \/ HostRemove

Spec == Init /\ [][Next]_vars

\* the same with the page loading and the checkPage interval firing
SpecLive == Spec /\ WF_vars(Onload) /\ WF_vars(checkPage)

\* the script on one rendered list that the host leaves alone; the page
\* signals a navigation within the view once the previous poll is over
NextPipe ==
    \/ Onload
    \/ checkPage
    \/ PollFire
    \/ \E i \in 1..(MaxItems + 1) : Click(i)
    \/ polls = 0 /\ PushState(url)
    \/ polls = 0 /\ ReplaceState(url)
    \/ polls = 0 /\ PopState(url)

SpecPipe == InitPipe /\ [][NextPipe]_vars

\* View State
OFF_VIEW == ~isOnRepositoriesPage
ON_VIEW_PENDING == isOnRepositoriesPage /\ ~hasProcessedRepositories
ON_VIEW_DONE == isOnRepositoriesPage /\ hasProcessedRepositories

TypeOK ==
    /\ url \in Urls
    /\ doc.container \in BOOLEAN
    /\ isOnRepositoriesPage \in BOOLEAN
    /\ hasProcessedRepositories \in BOOLEAN
    /\ checking \in BOOLEAN
    /\ polls \in 0..MaxPolls
    /\ runs \in 0..MaxRuns
    /\ scn \in -1..5
    /\ last.outcome \in {"none", "nocontainer", "threw", "done"}
    /\ heard \in Urls \cup {NoUrl}

----------------------------------------------------------------------------
(* Navigation monitor: claims *)

\* C1: in every reachable state the pipeline has completed at most one
\* rewrite since the most recent arrival on the target view, whatever
\* triggers fired (interval ticks, pushState / replaceState, popstate).
C1_AtMostOncePerArrival == runs <= 1

\* C2: when the environment has played [arrive, ready, depart, arrive, ready],
\* the monitor seeing each step, the pipeline has run exactly once for the
\* first arrival and, once the monitor is ON_VIEW_DONE again, exactly once
\* for the second: twice in all.
C2_TwicePerTwoArrivals ==
    /\ scn \in {1, 2, 4, 5} => runs <= 1
    /\ scn = 3 => runs = 1
    /\ scn = 5 /\ ON_VIEW_DONE => runs = 1

\* C3: if from some point on the location matches the target view and the
\* readiness probe returns true, the monitor reaches ON_VIEW_DONE and stays.
C3_EventuallyDone == (OnView /\ Ready) ~> (ON_VIEW_DONE \/ ~(OnView /\ Ready))

----------------------------------------------------------------------------
(* Grouping: claims *)

\* the group key of a title, stated without the code: the text before the
\* first '-', the whole title when it has none
KeyOf(title) ==
    LET n == CHOOSE k \in 0..Len(title) :
                 /\ \A i \in 1..k : title[i] # "-"
                 /\ k = Len(title) \/ title[k + 1] = "-"
    IN SubSeq(title, 1, n)

\* the nodes of the records of R with key k, in the order of R
NodesWithKey(R, k) ==
    LET recs == SelectSeq(R, LAMBDA rec : KeyOf(rec.title) = k) IN
    [i \in 1..Len(recs) |-> recs[i].node]

KeysOf(R) == { KeyOf(R[i].title) : i \in 1..Len(R) }

\* processRepositories has been called and the host has not touched the tree
Grouped == last.outcome \in {"threw", "done"}
Rewritten == last.outcome = "done"

\* C4: the groups returned for the extracted records R are a partition of R:
\* a result is returned, its keys are distinct, every record's node is in
\* the group of its key and in no other, and no node occurs twice.
C4_Partition ==
    Grouped =>
        LET R == last.data
            G == groupRepositoriesByPrefix(R)
        IN /\ ~G.threw
           /\ \A i, j \in 1..Len(G.keys) : G.keys[i] = G.keys[j] => i = j
           /\ \A i \in 1..Len(R) :
                  { k \in 1..Len(G.keys) : R[i].node \in Range(G.members[k]) }
                  = { k \in 1..Len(G.keys) : G.keys[k] = KeyOf(R[i].title) }
           /\ \A i \in 1..Len(R) : \E k \in 1..Len(G.keys) :
                  R[i].node \in Range(G.members[k])
           /\ \A k \in 1..Len(G.keys) :
                  \A i, j \in 1..Len(G.members[k]) :
                      G.members[k][i] = G.members[k][j] => i = j

\* C5: in the mapping returned for R, the members of each group are the
\* subsequence of R restricted to the records with that key.
C5_Stable ==
    Grouped =>
        LET R == last.data
            G == groupRepositoriesByPrefix(R)
        IN \A k \in 1..Len(G.keys) :
               G.members[k] = NodesWithKey(R, G.keys[k])

\* a group of two members with a record of another key between them
C5_Witness ==
    /\ Rewritten
    /\ Len(last.data) = 3
    /\ KeyOf(last.data[1].title) = KeyOf(last.data[3].title)
    /\ KeyOf(last.data[1].title) # KeyOf(last.data[2].title)
    /\ ~groupRepositoriesByPrefix(last.data).threw

----------------------------------------------------------------------------
(* The rewrite: claims *)

\* the records of R whose key no other record of R has, and the others
IsUnique(R, i) == \A j \in 1..Len(R) : KeyOf(R[j].title) = KeyOf(R[i].title) => j = i
Orphans(R) == { i \in 1..Len(R) : IsUnique(R, i) }
Grouped2(R) == { i \in 1..Len(R) : ~IsUnique(R, i) }

\* the keys of R that two records or more share, and the sections of the tree
SharedKeys(R) == { KeyOf(R[i].title) : i \in Grouped2(R) }
Sections(children) == { i \in 1..Len(children) : children[i].kind = "menu" }
Ids(nodes) == [i \in 1..Len(nodes) |-> nodes[i].id]

\* the text after the key and the first delimiter
SuffixOf(title) == SubSeq(title, Len(KeyOf(title)) + 2, Len(title))
HasSuffix(title) == Len(title) > Len(KeyOf(title))

\* C6: after processRepositories every record whose key is unique in R is
\* a direct child of the container, the same node with the text it had,
\* once, and no section holds it.
C6_OrphanInvariance ==
    Rewritten =>
        \A i \in Orphans(last.data) :
            /\ Cardinality({ c \in 1..Len(doc.children) :
                               doc.children[c] = last.data[i].node }) = 1
            /\ \A c \in Sections(doc.children) :
                   last.data[i].node.id \notin Range(Ids(doc.children[c].content))

\* an orphan next to a section, and an orphan whose text is padded
C6_Witness ==
    /\ Rewritten
    /\ Sections(doc.children) # {}
    /\ \E i \in Orphans(last.data) :
           last.data[i].node.text # last.data[i].title

\* C7: after processRepositories every record of a shared key K whose title
\* is K, '-' and a suffix shows exactly that suffix, inside a section whose
\* header is K upper-cased; and every header is such a key upper-cased.
C7_TitleStripping ==
    Rewritten =>
        /\ \A i \in Grouped2(last.data) :
               LET rec == last.data[i] IN
               HasSuffix(rec.title) =>
                   \E c \in Sections(doc.children) :
                       /\ doc.children[c].text = ToUpperCase(KeyOf(rec.title))
                       /\ \E m \in 1..Len(doc.children[c].content) :
                              /\ doc.children[c].content[m].id = rec.node.id
                              /\ doc.children[c].content[m].text = SuffixOf(rec.title)
        /\ \A c \in Sections(doc.children) :
               \E k \in SharedKeys(last.data) : doc.children[c].text = ToUpperCase(k)

\* a stripped member whose suffix holds a further delimiter
C7_Witness ==
    /\ Rewritten
    /\ \E i \in Grouped2(last.data) :
           /\ HasSuffix(last.data[i].title)
           /\ \E p \in 1..Len(SuffixOf(last.data[i].title)) :
                  SuffixOf(last.data[i].title)[p] = "-"
           /\ KeyOf(last.data[i].title) # <<>>

\* the nodes of the orphans of R, in the order of R
OrphanSeq(R) ==
    LET recs == SelectSeq(R, LAMBDA rec :
                    \A j \in 1..Len(R) :
                        KeyOf(R[j].title) = KeyOf(rec.title) => R[j] = rec)
    IN [i \in 1..Len(recs) |-> recs[i].node]

\* C8: after processRepositories the children of the container are the
\* sections, one per shared key, and after them the orphans in extraction
\* order.
C8_FinalLayout ==
    Rewritten =>
        LET n == Cardinality(SharedKeys(last.data)) IN
        /\ Len(doc.children) = n + Len(OrphanSeq(last.data))
        /\ \A c \in 1..n : doc.children[c].kind = "menu"
        /\ SubSeq(doc.children, n + 1, Len(doc.children)) = OrphanSeq(last.data)

\* a list that began with an orphan and had a group after it
C8_Witness ==
    /\ Rewritten
    /\ Len(last.data) = 3
    /\ 1 \in Orphans(last.data)
    /\ Grouped2(last.data) = {2, 3}
    /\ doc.children[1].kind = "menu"

\* the display flag of a section
Expanded(menu) == menu.display = "block"

\* a step of checkPage or of a readiness poll in which the container was rewritten
Rewrote ==
    /\ \/ PollFire /\ pollProcesses(doc)
       \/ checkPage /\ shouldProcess(
              arrivedFlag(url, isOnRepositoriesPage),
              processedFlag(url, isOnRepositoriesPage, hasProcessedRepositories),
              doc)
    /\ last'.outcome = "done"

\* C9: every section starts collapsed; after 2n activations of its header
\* it is collapsed again and after 2n+1 it is shown; one activation changes
\* the flag of that section and nothing else: not another section, not an
\* item, not the View State.
C9_Toggle ==
    /\ [](\A c \in Sections(doc.children) :
              Expanded(doc.children[c]) <=> doc.children[c].clicks = 1)
    /\ [][ /\ Rewrote =>
                 \A c \in Sections(doc'.children) : ~Expanded(doc'.children[c])
           /\ \A i \in 1..Len(doc.children) :
                 Click(i) =>
                     /\ doc' = [doc EXCEPT
                                  !.children[i].display = doc'.children[i].display,
                                  !.children[i].clicks = doc'.children[i].clicks]
                     /\ doc'.children[i].display \in {"none", "block"}
                     /\ isOnRepositoriesPage' = isOnRepositoriesPage
                     /\ hasProcessedRepositories' = hasProcessedRepositories
         ]_vars

\* two sections, one shown and one hidden
C9_Witness ==
    \E c, e \in Sections(doc.children) :
        Expanded(doc.children[c]) /\ ~Expanded(doc.children[e])

\* C10: after processRepositories on a probe-ready container every item
\* that was in the container is in the tree once, as the same node; and
\* each section holds the members of one group, in extraction order.
C10_IdentityPreserved ==
    (Rewritten /\ is_document_ready([container |-> TRUE, children |-> last.before])) =>
        LET before == querySelectorAllLi(last.before)
            after == querySelectorAllLi(doc.children)
        IN /\ Len(after) = Len(before)
           /\ \A i \in 1..Len(before) :
                  Cardinality({ j \in 1..Len(after) : after[j].id = before[i].id }) = 1
           /\ \A c \in Sections(doc.children) :
                  \E k \in SharedKeys(last.data) :
                      Ids(doc.children[c].content) = Ids(NodesWithKey(last.data, k))

\* a rewrite that moved items into a section and kept an orphan
C10_Witness ==
    /\ Rewritten
    /\ is_document_ready([container |-> TRUE, children |-> last.before])
    /\ \E c \in Sections(doc.children) : Len(doc.children[c].content) >= 2
    /\ Orphans(last.data) # {}
    /\ Ids(querySelectorAllLi(doc.children)) # Ids(querySelectorAllLi(last.before))

----------------------------------------------------------------------------
(* Readiness probe: claims *)

\* the items of the tree: the container's own and those inside the sections
AllItems(d) ==
    { n \in Range(d.children) : n.kind = "li" }
    \cup UNION { Range(n.content) : n \in { m \in Range(d.children) : m.kind = "menu" } }

\* a text with a character that trimming keeps
HasInk(text) == \E p \in 1..Len(text) : ~IsSpace(text[p])

\* C11: is_document_ready is true exactly when the container exists, holds
\* at least one item, and every item has a title element whose trimmed text
\* is not empty; a tick or a poll firing that finds it false calls nothing:
\* the tree stays as it is, no timer is cleared, and the View State moves
\* only by the monitor's arrival and departure branches.
C11_ReadinessProbe ==
    /\ [](Ready <=> /\ doc.container
                    /\ AllItems(doc) # {}
                    /\ \A n \in AllItems(doc) : n.span /\ HasInk(n.text))
    /\ [][ (~Ready /\ (checkPage \/ PollFire)) =>
               /\ doc' = doc
               /\ last' = last
               /\ polls' = polls
               /\ isOnRepositoriesPage' = arrivedFlag(url, isOnRepositoriesPage)
               /\ hasProcessedRepositories' =
                     processedFlag(url, isOnRepositoriesPage, hasProcessedRepositories)
         ]_vars

\* the monitor waiting on a list whose items all have a title element, one
\* of them holding only white space
C11_Witness ==
    /\ checking /\ ON_VIEW_PENDING /\ OnView
    /\ doc.container
    /\ AllItems(doc) # {}
    /\ \A n \in AllItems(doc) : n.span
    /\ \E n \in AllItems(doc) : n.text # <<>> /\ ~HasInk(n.text)
    /\ \E n \in AllItems(doc) : HasInk(n.text)

----------------------------------------------------------------------------
(* View State machine: claims *)

ViewState ==
    IF ~isOnRepositoriesPage THEN "OFF_VIEW"
    ELSE IF hasProcessedRepositories THEN "ON_VIEW_DONE"
    ELSE "ON_VIEW_PENDING"

\* the step ran the pipeline once on the tree it found, and the run completed
OneRun ==
    /\ doc' = processRepositories(doc).doc
    /\ last' = [outcome |-> "done", data |-> getRepositoriesData(doc),
                before |-> doc.children]
    /\ runs' = Min(runs + 1, MaxRuns)

\* C12 as stated: every change of the View State is OFF_VIEW ->
\* ON_VIEW_PENDING when the location matches, ON_VIEW_PENDING -> ON_VIEW_DONE
\* when the probe succeeds (one pipeline run; an arrival check that finds the
\* probe true makes both at once), or ON_VIEW_DONE -> OFF_VIEW when the
\* location no longer matches; a check in ON_VIEW_DONE with the location
\* still matching changes neither the View State nor the tree.
C12_ListedTransitions ==
    [][ /\ ViewState' # ViewState =>
              \/ /\ ViewState = "OFF_VIEW" /\ ViewState' = "ON_VIEW_PENDING"
                 /\ OnView /\ doc' = doc
              \/ /\ ViewState = "OFF_VIEW" /\ ViewState' = "ON_VIEW_DONE"
                 /\ OnView /\ Ready /\ OneRun
              \/ /\ ViewState = "ON_VIEW_PENDING" /\ ViewState' = "ON_VIEW_DONE"
                 /\ OnView /\ Ready /\ OneRun
              \/ /\ ViewState = "ON_VIEW_DONE" /\ ViewState' = "OFF_VIEW"
                 /\ ~OnView /\ doc' = doc
        /\ (ON_VIEW_DONE /\ OnView /\ checkPage) =>
              /\ ViewState' = ViewState
              /\ doc' = doc
      ]_vars

\* C12, amended: the same with the departure from ON_VIEW_PENDING added:
\* ON_VIEW_PENDING -> OFF_VIEW when the location no longer matches.
C12_Conformance ==
    [][ /\ ViewState' # ViewState =>
              \/ /\ ViewState = "OFF_VIEW" /\ ViewState' = "ON_VIEW_PENDING"
                 /\ OnView /\ doc' = doc
              \/ /\ ViewState = "OFF_VIEW" /\ ViewState' = "ON_VIEW_DONE"
                 /\ OnView /\ Ready /\ OneRun
              \/ /\ ViewState = "ON_VIEW_PENDING" /\ ViewState' = "ON_VIEW_DONE"
                 /\ OnView /\ Ready /\ OneRun
              \/ /\ ViewState \in {"ON_VIEW_PENDING", "ON_VIEW_DONE"}
                 /\ ViewState' = "OFF_VIEW"
                 /\ ~OnView /\ doc' = doc
        /\ (ON_VIEW_DONE /\ OnView /\ checkPage) =>
              /\ ViewState' = ViewState
              /\ doc' = doc
      ]_vars

\* the monitor has gone through ON_VIEW_DONE and seen the departure
C12_Witness ==
    /\ checking /\ ~OnView
    /\ OFF_VIEW /\ hasProcessedRepositories

\* what one checkPage makes of the flags (on, done) at location u on tree d:
\* the flags it leaves and whether it runs the pipeline
checkPageFrom(u, on, done, d) ==
    LET on2 == arrivedFlag(u, on)
        done2 == processedFlag(u, on, done)
        run == shouldProcess(on2, done2, d)
    IN [on |-> on2,
        run |-> run,
        done |-> IF run THEN processRepositories(d).outcome # "threw" ELSE done2]

\* C13: once the monitor has seen the departure, the View State behaves as
\* the initial {false, false} whatever hasProcessedRepositories holds: the
\* next check arrives, runs the pipeline and sets the flags exactly as a
\* check from the initial View State would on the same location and tree,
\* and from the arrival on the two View States are equal.
C13_DepartureReset ==
    [][ (OFF_VIEW /\ checkPage) =>
            LET fresh == checkPageFrom(url, FALSE, FALSE, doc) IN
            /\ isOnRepositoriesPage' = fresh.on
            /\ isOnRepositoriesPage' => hasProcessedRepositories' = fresh.done
            /\ doc' = IF fresh.run THEN processRepositories(doc).doc ELSE doc
            /\ (last' # last) => fresh.run
      ]_vars

\* back on the view with a ready list after a departure from ON_VIEW_DONE,
\* hasProcessedRepositories still true from the earlier arrival
C13_Witness ==
    /\ checking /\ OnView /\ Ready
    /\ OFF_VIEW /\ hasProcessedRepositories

----------------------------------------------------------------------------
(* Section order: claims *)

\* the position in R of the first record with key k
FirstSeen(R, k) ==
    CHOOSE i \in 1..Len(R) :
        /\ KeyOf(R[i].title) = k
        /\ \A j \in 1..(i - 1) : KeyOf(R[j].title) # k

\* C14: after a rewrite the sections stand in the container in the order in
\* which their keys were first seen in the extracted records.
C14_FirstSeenOrder ==
    Rewritten =>
        \A c, e \in Sections(doc.children) :
            \A k, m \in SharedKeys(last.data) :
                ( /\ c < e
                  /\ doc.children[c].text = ToUpperCase(k)
                  /\ doc.children[e].text = ToUpperCase(m) )
                => FirstSeen(last.data, k) < FirstSeen(last.data, m)

----------------------------------------------------------------------------
(* Running the pipeline again: claims *)

\* the children with every section collapsed and never activated
Collapse(children) ==
    [i \in 1..Len(children) |->
        IF children[i].kind = "menu"
        THEN [children[i] EXCEPT !.display = "none", !.clicks = 0]
        ELSE children[i]]

\* C15: the pipeline is not idempotent: on a probe-ready tree that an
\* earlier run left with a section (a group of two or more), a second
\* processRepositories completes with a different tree; and in ON_VIEW_DONE
\* on such a tree the guard on hasProcessedRepositories is the one conjunct
\* of checkPage's condition that is false.
C15_NotIdempotent ==
    (Rewritten /\ Sections(doc.children) # {} /\ Ready) =>
        LET again == processRepositories(doc) IN
        /\ again.outcome = "done"
        /\ Collapse(again.doc.children) # Collapse(doc.children)
        /\ isOnRepositoriesPage => shouldProcess(isOnRepositoriesPage, FALSE, doc)

\* a second run has rewritten a tree that held a section, into another tree
C15_Witness ==
    /\ Rewritten
    /\ \E i \in 1..Len(last.before) :
           last.before[i].kind = "menu" /\ Len(last.before[i].content) >= 2
    /\ Collapse(doc.children) # Collapse(last.before)

----------------------------------------------------------------------------
(* Readiness polls: claims *)

\* C16: a readiness poll stops only by its own firing with the probe true:
\* that firing clears one timer and calls processRepositories once on the
\* tree it found; a firing with the probe false leaves the timer running
\* and changes nothing; nothing else ever ends a poll (no timeout).
C16_SelfCancelling ==
    [][ /\ polls' < polls =>
              /\ Ready
              /\ polls' = polls - 1
              /\ doc' = processRepositories(doc).doc
              /\ last' = [outcome |-> processRepositories(doc).outcome,
                          data |-> getRepositoriesData(doc),
                          before |-> doc.children]
        /\ (~Ready /\ PollFire) =>
              /\ polls' = polls
              /\ doc' = doc
              /\ last' = last
      ]_vars

\* the only poll there was has fired with the probe true, rewritten the
\* container, and is gone; the monitor never ran
C16_Witness ==
    /\ ~checking
    /\ polls = 0
    /\ Rewritten

----------------------------------------------------------------------------
(* History interception: claims *)

\* C18: a call of the wrapped pushState or replaceState makes the original
\* call with its arguments (the location becomes the one asked for) and
\* emits one navigation signal, after the original call: the signal finds
\* the new location and its listener starts one readiness poll; and no
\* signal is emitted in any other way than with the location already set.
C18_HistoryInterception ==
    [][ /\ \A u \in Urls :
              (PushState(u) \/ ReplaceState(u)) =>
                  /\ url' = u
                  /\ heard' = u
                  /\ polls' = polls + 1
        /\ (heard' # heard \/ polls' > polls) =>
              /\ heard' = url'
              /\ polls' = polls + 1
      ]_vars

\* before the page has loaded, one call has moved the location off the
\* repositories view; its signal found the new location and its poll runs
C18_Witness ==
    /\ ~checking
    /\ heard = OtherUrl /\ url = OtherUrl
    /\ polls = 1

----------------------------------------------------------------------------
(* What the rewrite touches: claims *)

\* the children the container had before the call that were not extracted
NotExtracted(before, R) ==
    { i \in 1..Len(before) :
        \/ before[i].kind = "menu"
        \/ \A r \in 1..Len(R) : R[r].node.id # before[i].id }

\* C19 as stated: after processRepositories every extracted item node is in
\* the tree once, the same node with the text it had; and every child of
\* the container that was not extracted is still there, as it was.
C19_OnlyRelocates ==
    Rewritten =>
        LET R == last.data
            after == querySelectorAllLi(doc.children)
        IN /\ \A r \in 1..Len(R) :
                  /\ Cardinality({ j \in 1..Len(after) : after[j].id = R[r].node.id }) = 1
                  /\ \E j \in 1..Len(after) : after[j] = R[r].node
           /\ \A i \in NotExtracted(last.before, R) :
                  \E j \in 1..Len(doc.children) :
                      /\ doc.children[j].kind = last.before[i].kind
                      /\ doc.children[j].id = last.before[i].id
                      /\ doc.children[j].text = last.before[i].text

\* C19, amended: after processRepositories every extracted item node is in
\* the tree once, as the same node; the members of the groups of two or
\* more show their title without the key and the delimiter, every other
\* extracted item shows the text it had; and nothing that was not extracted
\* is left in the container: its items are the extracted ones and its
\* sections are those of this call's groups.
C19_RelocatesExtracted ==
    Rewritten =>
        LET R == last.data
            after == querySelectorAllLi(doc.children)
        IN /\ \A r \in 1..Len(R) :
                  /\ Cardinality({ j \in 1..Len(after) : after[j].id = R[r].node.id }) = 1
                  /\ \E j \in 1..Len(after) :
                         /\ after[j].id = R[r].node.id
                         /\ after[j].span
                         /\ after[j].text =
                                IF r \in Grouped2(R) THEN SuffixOf(R[r].title)
                                ELSE R[r].node.text
           /\ \A j \in 1..Len(after) : \E r \in 1..Len(R) : after[j].id = R[r].node.id
           /\ Cardinality(Sections(doc.children)) = Cardinality(SharedKeys(R))

\* a second call: the container held a section, which was not extracted,
\* and the call put members of a new group into a section of its own
C19_Witness ==
    /\ Rewritten
    /\ \E i \in NotExtracted(last.before, last.data) : last.before[i].kind = "menu"
    /\ Grouped2(last.data) # {}

----------------------------------------------------------------------------
(* Where the pipeline runs: claims *)

\* a step of checkPage or of a readiness poll that calls processRepositories
Invoked ==
    \/ PollFire /\ pollProcesses(doc)
    \/ checkPage /\ shouldProcess(
           arrivedFlag(url, isOnRepositoriesPage),
           processedFlag(url, isOnRepositoriesPage, hasProcessedRepositories),
           doc)

\* C20: whatever the trigger, processRepositories is called only while the
\* location matches the repositories view and isOnRepositoriesPage is true.
C20_OnlyOnView ==
    [][ Invoked => (OnView /\ isOnRepositoriesPage') ]_vars

\* C21: at most one readiness-poll timer is running at any time, however
\* many navigation signals arrive before the view becomes ready.
C21_AtMostOnePoll == polls <= 1

====
